---- MODULE Spec2Model ----
(***************************************************************************)
(* A model of genere's Generator (src/src/lib/generator.rs).               *)
(*                                                                         *)
(* Strings are sequences of characters, each character a one-character     *)
(* TLA+ string, so that the regular expressions of the source are modelled *)
(* by the scans they perform.  A Result is a record whose field st is      *)
(* "ok", "err" (an Err returned by bail! or ?), "panic" (unwrap() of an    *)
(* Err, or unreachable!()) or "overflow" (recursion that never returns).   *)
(***************************************************************************)
EXTENDS Integers, Sequences, FiniteSets, TLC

VARIABLES
  replacements,  \* Generator.replacements: symbol -> Replacement
  replaced,      \* Generator.replaced: symbol -> Replaced (pre-set genders)
  call,          \* the last top-level call and what it returned
  ops,           \* how many add / add_json / set_gender calls were made
  probe          \* input and output of the private pure functions

vars == <<replacements, replaced, call, ops, probe>>

----------------------------------------------------------------------------
(* Characters *)

LowerChars == <<"a","b","c","d","e","f","g","h","i","j","k","l","m",
                "n","o","p","q","r","s","t","u","v","w","x","y","z">>

UpperChars == <<"A","B","C","D","E","F","G","H","I","J","K","L","M",
                "N","O","P","Q","R","S","T","U","V","W","X","Y","Z">>

DigitChars == {"0","1","2","3","4","5","6","7","8","9"}

Range(f) == {f[i] : i \in DOMAIN f}

IndexOf(c, seq) == CHOOSE i \in DOMAIN seq : seq[i] = c

is_uppercase(c) == c \in Range(UpperChars)

is_lowercase(c) == c \in Range(LowerChars)

char_to_uppercase(c) == IF is_lowercase(c) THEN UpperChars[IndexOf(c, LowerChars)] ELSE c

char_to_lowercase(c) == IF is_uppercase(c) THEN LowerChars[IndexOf(c, UpperChars)] ELSE c

to_uppercase(s) == [i \in DOMAIN s |-> char_to_uppercase(s[i])]

to_lowercase(s) == [i \in DOMAIN s |-> char_to_lowercase(s[i])]

\* \w of the regex crate: letters, digits and the underscore
IsWord(c) == is_lowercase(c) \/ is_uppercase(c) \/ c \in DigitChars \/ c = "_"

\* [\w~<>] of RE_SLASHES and RE_DOTS
IsAgree(c) == IsWord(c) \/ c \in {"~", "<", ">"}

\* . of the regex crate: any character but the line feed
IsDot(c) == c # "\n"

Drop(s, n) == SubSeq(s, n + 1, Len(s))

Take(s, n) == SubSeq(s, 1, n)

\* the length of the longest prefix of s whose characters are all \w
RECURSIVE WordRun(_)
WordRun(s) == IF s # <<>> /\ IsWord(s[1]) THEN 1 + WordRun(Tail(s)) ELSE 0

\* the length of the longest prefix of s whose characters are all [\w~<>]
RECURSIVE AgreeRun(_)
AgreeRun(s) == IF s # <<>> /\ IsAgree(s[1]) THEN 1 + AgreeRun(Tail(s)) ELSE 0

\* str::find(pred): the 0-based index of the first character in cs, -1 for None
RECURSIVE FindFrom(_, _, _)
FindFrom(s, cs, i) ==
  IF i > Len(s) THEN -1
  ELSE IF s[i] \in cs THEN i - 1
  ELSE FindFrom(s, cs, i + 1)

Ok(s) == [st |-> "ok", s |-> s]

Panic == [st |-> "panic", s |-> <<>>]

----------------------------------------------------------------------------
(* Pattern escaper *)

Tag(name) == <<"~", "<">> \o name \o <<">">>

TagSpace == <<"s","p","a","c","e">>
TagTilde == <<"t","i","l","d","e">>
TagLeftSquare == <<"l","e","f","t","s","q","u","a","r","e">>
TagRightSquare == <<"r","i","g","h","t","s","q","u","a","r","e">>
TagLeftCurly == <<"l","e","f","t","c","u","r","l","y">>
TagRightCurly == <<"r","i","g","h","t","c","u","r","l","y">>
TagSlash == <<"s","l","a","s","h">>
TagMedian == <<"m","e","d","i","a","n">>

\* a closure that keeps the marker of a sequence it does not recognize
EscapeKeepsMarker(c) ==
  CASE c = " " -> Tag(TagSpace)
    [] c = "~" -> Tag(TagTilde)
    [] c = "[" -> Tag(TagLeftSquare)
    [] c = "]" -> Tag(TagRightSquare)
    [] c = "{" -> Tag(TagLeftCurly)
    [] c = "}" -> Tag(TagRightCurly)
    [] c = "/" -> Tag(TagSlash)
    [] c = "·" -> Tag(TagMedian)
    [] OTHER -> <<"~", c>>

\* the closure of pre_process: what replaces a match ~c of the regex ~(.)
EscapeOne(c) ==
  CASE c = " " -> Tag(TagSpace)
    [] c = "~" -> Tag(TagTilde)
    [] c = "[" -> Tag(TagLeftSquare)
    [] c = "]" -> Tag(TagRightSquare)
    [] c = "{" -> Tag(TagLeftCurly)
    [] c = "}" -> Tag(TagRightCurly)
    [] c = "/" -> Tag(TagSlash)
    [] c = "·" -> Tag(TagMedian)
    [] OTHER -> <<c>>

\* replace_all of ~(.): the matches are taken left to right and do not overlap
RECURSIVE pre_process(_)
pre_process(s) ==
  IF s = <<>> THEN <<>>
  ELSE IF s[1] = "~" /\ Len(s) >= 2 /\ IsDot(s[2])
       THEN EscapeOne(s[2]) \o pre_process(Drop(s, 2))
       ELSE <<s[1]>> \o pre_process(Tail(s))

\* a closure that exchanges the two square brackets
UnescapeSwapsSquares(name) ==
  CASE name = TagSpace -> <<" ">>
    [] name = TagTilde -> <<"~">>
    [] name = TagLeftSquare -> <<"]">>
    [] name = TagRightSquare -> <<"[">>
    [] name = TagLeftCurly -> <<"{">>
    [] name = TagRightCurly -> <<"}">>
    [] name = TagSlash -> <<"/">>
    [] name = TagMedian -> <<"·">>
    [] OTHER -> <<>>

\* the closure of post_process: the character of a tag; <<>> is unreachable!()
UnescapeOne(name) ==
  CASE name = TagSpace -> <<" ">>
    [] name = TagTilde -> <<"~">>
    [] name = TagLeftSquare -> <<"[">>
    [] name = TagRightSquare -> <<"]">>
    [] name = TagLeftCurly -> <<"{">>
    [] name = TagRightCurly -> <<"}">>
    [] name = TagSlash -> <<"/">>
    [] name = TagMedian -> <<"·">>
    [] OTHER -> <<>>

\* whether the regex ~<(\w+)> matches at the start of s
TagAt(s) ==
  /\ Len(s) >= 4
  /\ s[1] = "~"
  /\ s[2] = "<"
  /\ WordRun(Drop(s, 2)) >= 1
  /\ Len(s) >= 3 + WordRun(Drop(s, 2))
  /\ s[3 + WordRun(Drop(s, 2))] = ">"

\* replace_all of ~<(\w+)>; a tag the match does not list panics
RECURSIVE post_process(_)
post_process(s) ==
  IF s = <<>> THEN Ok(<<>>)
  ELSE IF TagAt(s)
       THEN LET n == WordRun(Drop(s, 2))
                c == UnescapeOne(SubSeq(s, 3, 2 + n))
                rest == post_process(Drop(s, 3 + n))
            IN IF c = <<>> \/ rest.st # "ok" THEN Panic ELSE Ok(c \o rest.s)
       ELSE LET rest == post_process(Tail(s))
            IN IF rest.st # "ok" THEN Panic ELSE Ok(<<s[1]>> \o rest.s)

----------------------------------------------------------------------------
(* Capitalization adapter *)

capitalize(symbol, content) ==
  IF FindFrom(symbol, Range(UpperChars), 1) = 0
  THEN IF FindFrom(symbol, Range(LowerChars), 1) >= 0
       THEN IF content = <<>> THEN Panic
            ELSE Ok(<<char_to_uppercase(content[1])>> \o Tail(content))
       ELSE Ok(to_uppercase(content))
  ELSE Ok(content)

----------------------------------------------------------------------------
(* Maps (HashMap), options and results *)

Get(m, k) == m[k]

Has(m, k) == k \in DOMAIN m

Insert(m, k, v) == [x \in DOMAIN m \cup {k} |-> IF x = k THEN v ELSE m[x]]

EmptyMap == [x \in {} |-> <<>>]

None == [some |-> FALSE, v |-> <<>>]

Some(x) == [some |-> TRUE, v |-> x]

Replaced(content, gender) == [content |-> content, gender |-> gender]

Replacement(dep, content) == [gender_dependency |-> dep, content |-> content]

\* a value returned with the state the call leaves behind
Ret(st, v, c) == [st |-> st, v |-> v, c |-> c]

\* Result::unwrap() inside a replace_all closure: an Err becomes a panic
Unwrap(r) == IF r.st = "err" THEN Ret("panic", r.v, r.c) ELSE r

\* the unwrap() of the {symbol} closure (line 300)
UnwrapInstantiate(r) == Unwrap(r)

\* the unwrap() of the get_gender calls of the agreement closures (322, 362)
UnwrapGender(r) == Unwrap(r)

----------------------------------------------------------------------------
(* The random source.  A generator state is a number; choose() draws once. *)
(* SmallRng and ThreadRng belong to the rand crate: the model keeps only   *)
(* that the stream of draws is a function of the state it starts from.     *)

RngNext(rng) == (5 * rng + 3) % 16

RngPick(rng, n) == (rng \div 4) % n

\* a generator that starts where the last call left the previous one
seed_from_u64_stale(seed) == call.rng

seed_from_u64(seed) == seed % 16

thread_rng(entropy) == entropy % 16

----------------------------------------------------------------------------
(* Expansion engine *)

MaxDepth == 6

\* the state one top-level call threads through the recursion:
\*   self      the generator (read only)
\*   replaced  the resolution environment, rng the random source,
\*   stack     the recursion guard,
\*   env/nenv  which environment this is (0: the call's own; each
\*             reinstantiate makes a new one), depth the nesting of
\*             instantiate_util, log what the {symbol} references got
\* a call that starts from the environment the call before it left
ContextKeepsEnvironment(self, env, rng) ==
  [self |-> self, replaced |-> IF call.op = "none" THEN env ELSE call.replaced,
   rng |-> rng, stack |-> {},
   env |-> 0, nenv |-> 0, depth |-> 0, maxdepth |-> 0, log |-> <<>>]

Context(self, env, rng) ==
  [self |-> self, replaced |-> env, rng |-> rng, stack |-> {},
   env |-> 0, nenv |-> 0, depth |-> 0, maxdepth |-> 0, log |-> <<>>]

\* slice::choose: None on an empty slice, without a draw
Choose(content, rng) ==
  IF content = <<>> THEN [s |-> <<>>, rng |-> rng]
  ELSE [s |-> content[RngPick(rng, Len(content)) + 1], rng |-> RngNext(rng)]

\* RE_SET_GENDER \[([mfn])\] at the start of s
SetGenderAt(s) == Len(s) >= 3 /\ s[1] = "[" /\ s[2] \in {"m", "f", "n"} /\ s[3] = "]"

\* the captures of RE_SET_GENDER in s, in order
RECURSIVE SetGenderCaptures(_)
SetGenderCaptures(s) ==
  IF s = <<>> THEN <<>>
  ELSE IF SetGenderAt(s) THEN <<s[2]>> \o SetGenderCaptures(Drop(s, 3))
  ELSE SetGenderCaptures(Tail(s))

\* RE_SET_GENDER.replace_all(s, "")
RECURSIVE SetGenderStrip(_)
SetGenderStrip(s) ==
  IF s = <<>> THEN <<>>
  ELSE IF SetGenderAt(s) THEN SetGenderStrip(Drop(s, 3))
  ELSE <<s[1]>> \o SetGenderStrip(Tail(s))

GenderOfMarker(m) ==
  CASE m = "m" -> "Male"
    [] m = "f" -> "Female"
    [] OTHER -> "Neutral"

\* RE_REINSTANTIATE \{\{(\w*)\}\} at the start of s
ReinstantiateAt(s) ==
  /\ Len(s) >= 4
  /\ s[1] = "{" /\ s[2] = "{"
  /\ Len(s) >= 4 + WordRun(Drop(s, 2))
  /\ s[3 + WordRun(Drop(s, 2))] = "}"
  /\ s[4 + WordRun(Drop(s, 2))] = "}"

\* RE_INSTANTIATE \{(\w*)\} at the start of s
InstantiateAt(s) ==
  /\ Len(s) >= 2
  /\ s[1] = "{"
  /\ Len(s) >= 2 + WordRun(Tail(s))
  /\ s[2 + WordRun(Tail(s))] = "}"

\* the optional group (?:\[(\w+)\])? of RE_SLASHES at the start of s
SlashOverrideAt(s) ==
  /\ Len(s) >= 3
  /\ s[1] = "["
  /\ WordRun(Tail(s)) >= 1
  /\ Len(s) >= 2 + WordRun(Tail(s))
  /\ s[2 + WordRun(Tail(s))] = "]"

\* the optional group (?:\[([\w~<>]+)\])? of RE_DOTS at the start of s
DotOverrideAt(s) ==
  /\ Len(s) >= 3
  /\ s[1] = "["
  /\ AgreeRun(Tail(s)) >= 1
  /\ Len(s) >= 2 + AgreeRun(Tail(s))
  /\ s[2 + AgreeRun(Tail(s))] = "]"

\* a maximal run of [\w~<>] at the start of s, and what follows it
AgreeGroup(s) == [v |-> Take(s, AgreeRun(s)), rest |-> Drop(s, AgreeRun(s))]

\* an optional group (?:<sep>([\w~<>]*))? at the start of s
OptionalGroup(sep, s) ==
  IF s # <<>> /\ s[1] = sep
  THEN [some |-> TRUE, v |-> Take(Tail(s), AgreeRun(Tail(s))),
        rest |-> Drop(s, 1 + AgreeRun(Tail(s)))]
  ELSE [some |-> FALSE, v |-> <<>>, rest |-> s]

\* the optional group (?:\[(\w+)\])? of RE_SLASHES at the start of s
SlashOverride(s) ==
  IF SlashOverrideAt(s)
  THEN [some |-> TRUE, v |-> SubSeq(s, 2, 1 + WordRun(Tail(s))),
        rest |-> Drop(s, 2 + WordRun(Tail(s)))]
  ELSE [some |-> FALSE, v |-> <<>>, rest |-> s]

\* the optional group (?:\[([\w~<>]+)\])? of RE_DOTS at the start of s
DotOverride(s) ==
  IF DotOverrideAt(s)
  THEN [some |-> TRUE, v |-> SubSeq(s, 2, 1 + AgreeRun(Tail(s))),
        rest |-> Drop(s, 2 + AgreeRun(Tail(s)))]
  ELSE [some |-> FALSE, v |-> <<>>, rest |-> s]

NoMatch == [hit |-> FALSE]

\* RE_SLASHES at the start of s: the captures g1..g4 and the text after the
\* match.  Every group is greedy and ends at a character that no shorter
\* group could let the next one match, so the match is the one scanned here.
SlashMatch4(g1, g2, g3, g4) ==
  [hit |-> TRUE, g1 |-> g1.v, g2 |-> g2.v, g3 |-> [some |-> g3.some, v |-> g3.v],
   g4 |-> [some |-> g4.some, v |-> g4.v], rest |-> g4.rest]

SlashMatch3(g1, g2, g3) == SlashMatch4(g1, g2, g3, SlashOverride(g3.rest))

SlashMatch2(g1, g2) == SlashMatch3(g1, g2, OptionalGroup("/", g2.rest))

SlashMatch1(g1) ==
  IF g1.rest # <<>> /\ g1.rest[1] = "/"
  THEN SlashMatch2(g1, AgreeGroup(Tail(g1.rest)))
  ELSE NoMatch

SlashMatch(s) == SlashMatch1(AgreeGroup(s))

\* RE_DOTS at the start of s: the captures g1..g5 and the text after the match
DotMatch5(g1, g2, g3, g4, g5) ==
  [hit |-> TRUE, g1 |-> g1.v, g2 |-> g2.v, g3 |-> [some |-> g3.some, v |-> g3.v],
   g4 |-> [some |-> g4.some, v |-> g4.v], g5 |-> [some |-> g5.some, v |-> g5.v],
   rest |-> g5.rest]

DotMatch4(g1, g2, g3, g4) == DotMatch5(g1, g2, g3, g4, DotOverride(g4.rest))

DotMatch3(g1, g2, g3) == DotMatch4(g1, g2, g3, OptionalGroup("·", g3.rest))

DotMatch2(g1, g2) == DotMatch3(g1, g2, OptionalGroup("·", g2.rest))

DotMatch1(g1) ==
  IF g1.v # <<>> /\ g1.rest # <<>> /\ g1.rest[1] = "·"
  THEN DotMatch2(g1, AgreeGroup(Tail(g1.rest)))
  ELSE NoMatch

DotMatch(s) == DotMatch1(AgreeGroup(s))

\* the closure of the RE_DOTS pass: the text for a match, given the gender
DotOutput(m, gender) ==
  LET len == 3 + (IF m.g3.some THEN 1 ELSE 0) + (IF m.g4.some THEN 1 ELSE 0)
  IN CASE gender = "Male" ->
            (CASE len = 3 -> m.g1
               [] len = 4 -> m.g1 \o m.g2
               [] OTHER -> m.g1 \o m.g2 \o m.g4.v)
       [] gender = "Female" ->
            (CASE len = 3 -> m.g1 \o m.g2
               [] len = 4 -> m.g1 \o m.g3.v
               [] OTHER -> m.g1 \o m.g3.v \o m.g4.v)
       [] OTHER ->
            (CASE len = 3 -> m.g1 \o <<"/">> \o m.g1 \o m.g2
               [] len = 4 -> m.g1 \o m.g2 \o <<"/">> \o m.g1 \o m.g3.v
               [] OTHER -> m.g1 \o m.g2 \o m.g4.v \o <<"/">> \o m.g1 \o m.g3.v \o m.g4.v)

\* a closure whose Neutral fallback is the male branch alone
SlashOutputNeutralFirst(m, gender) ==
  CASE gender = "Male" -> m.g1
    [] gender = "Female" -> m.g2
    [] OTHER -> IF m.g3.some THEN m.g3.v ELSE m.g1

\* the closure of the RE_SLASHES pass: the text for a match, given the gender
SlashOutput(m, gender) ==
  CASE gender = "Male" -> m.g1
    [] gender = "Female" -> m.g2
    [] OTHER -> IF m.g3.some THEN m.g3.v ELSE m.g1 \o <<"/">> \o m.g2

RECURSIVE instantiate_util(_, _)
RECURSIVE replace_content(_, _)
RECURSIVE get_gender(_, _)
RECURSIVE ReinstantiatePass(_, _)
RECURSIVE InstantiatePass(_, _)
RECURSIVE DotsPass(_, _, _)
RECURSIVE SlashesPass(_, _, _)

\* the text s followed by the rest of a pass, unless the rest failed
Then(s, rest) == IF rest.st = "ok" THEN Ret("ok", s \o rest.v, rest.c) ELSE rest

\* get_gender, after the symbol was resolved if it had to be (lines 198-204)
GenderLookup(symbol, r) ==
  IF r.st # "ok" THEN r
  ELSE IF Has(r.c.replaced, symbol)
       THEN Ret("ok", Get(r.c.replaced, symbol).gender, r.c)
       ELSE Ret("err", "MissingGenderSource", r.c)

get_gender(symbol, c) ==
  GenderLookup(symbol, IF ~Has(c.replaced, symbol) THEN instantiate_util(symbol, c)
                       ELSE Ret("ok", <<>>, c))

\* an environment for {{symbol}} that is a copy of the current one
ReinstantiateEnvCurrent(c) == c.replaced

\* the environment a {{symbol}} starts from: a clone of the generator's replaced
ReinstantiateEnv(c) == c.self.replaced

\* reinstantiate's own environment and guard are dropped when it returns; the
\* random source is the caller's and keeps what was drawn
Forgotten(c, r) ==
  Ret(r.st, r.v, [r.c EXCEPT !.replaced = c.replaced, !.stack = c.stack, !.env = c.env])

\* a reinstantiation that keeps the guard of the enclosing call
reinstantiate_in_guard(symbol, c) ==
  Forgotten(c, instantiate_util(symbol,
                                [c EXCEPT !.replaced = ReinstantiateEnv(c),
                                          !.env = c.nenv + 1, !.nenv = c.nenv + 1]))

\* "forget" all state and instantiate a symbol
reinstantiate(symbol, c) ==
  Forgotten(c, instantiate_util(symbol,
                                [c EXCEPT !.replaced = ReinstantiateEnv(c), !.stack = {},
                                          !.env = c.nenv + 1, !.nenv = c.nenv + 1]))

\* the rest of the RE_REINSTANTIATE pass after the closure returned r
ReinstantiateRest(s, r) ==
  IF r.st # "ok" THEN r ELSE Then(r.v, ReinstantiatePass(s, r.c))

\* RE_REINSTANTIATE.replace_all
ReinstantiatePass(s, c) ==
  IF s = <<>> THEN Ret("ok", <<>>, c)
  ELSE IF ReinstantiateAt(s)
       THEN ReinstantiateRest(Drop(s, 4 + WordRun(Drop(s, 2))),
                              Unwrap(reinstantiate(SubSeq(s, 3, 2 + WordRun(Drop(s, 2))), c)))
       ELSE Then(<<s[1]>>, ReinstantiatePass(Tail(s), c))

\* what a {symbol} reference got: kept for the properties, not by the program
Logged(c, symbol, text) ==
  [c EXCEPT !.log = Append(@, [env |-> c.env, symbol |-> to_lowercase(symbol),
                               spelling |-> symbol, text |-> text,
                               content |-> Get(c.replaced, to_lowercase(symbol)).content])]

\* the rest of the RE_INSTANTIATE pass after the closure returned r for symbol
InstantiateRest(s, symbol, r) ==
  IF r.st # "ok" THEN r
  ELSE Then(r.v, InstantiatePass(s, Logged(r.c, symbol, r.v)))

\* RE_INSTANTIATE.replace_all
InstantiatePass(s, c) ==
  IF s = <<>> THEN Ret("ok", <<>>, c)
  ELSE IF InstantiateAt(s)
       THEN InstantiateRest(Drop(s, 2 + WordRun(Tail(s))), SubSeq(s, 2, 1 + WordRun(Tail(s))),
                            UnwrapInstantiate(instantiate_util(SubSeq(s, 2, 1 + WordRun(Tail(s))), c)))
       ELSE Then(<<s[1]>>, InstantiatePass(Tail(s), c))

\* the rest of the RE_DOTS pass after the closure got the gender g of match m
DotsRest(m, gender_adapt, g) ==
  IF g.st # "ok" THEN g
  ELSE Then(DotOutput(m, g.v), DotsPass(m.rest, gender_adapt, g.c))

DotsFound(s, m, gender_adapt, c) ==
  IF m.hit
  THEN DotsRest(m, gender_adapt,
                IF m.g5.some THEN UnwrapGender(get_gender(m.g5.v, c))
                ELSE Ret("ok", gender_adapt, c))
  ELSE Then(<<s[1]>>, DotsPass(Tail(s), gender_adapt, c))

\* RE_DOTS.replace_all
DotsPass(s, gender_adapt, c) ==
  IF s = <<>> THEN Ret("ok", <<>>, c) ELSE DotsFound(s, DotMatch(s), gender_adapt, c)

\* the rest of the RE_SLASHES pass after the closure got the gender g of match m
SlashesRest(m, gender_adapt, g) ==
  IF g.st # "ok" THEN g
  ELSE Then(SlashOutput(m, g.v), SlashesPass(m.rest, gender_adapt, g.c))

SlashesFound(s, m, gender_adapt, c) ==
  IF m.hit
  THEN SlashesRest(m, gender_adapt,
                   IF m.g4.some THEN UnwrapGender(get_gender(m.g4.v, c))
                   ELSE Ret("ok", gender_adapt, c))
  ELSE Then(<<s[1]>>, SlashesPass(Tail(s), gender_adapt, c))

\* RE_SLASHES.replace_all
SlashesPass(s, gender_adapt, c) ==
  IF s = <<>> THEN Ret("ok", <<>>, c) ELSE SlashesFound(s, SlashMatch(s), gender_adapt, c)

\* replace_content, step by step; each step gets what the step before returned

\* lines 380-383: the text of the last pass with the gender of the marker
ReplaceSlashed(gender, sl) ==
  IF sl.st # "ok" THEN sl ELSE Ret("ok", Replaced(sl.v, gender), sl.c)

\* lines 359-378
ReplaceDotted(gender, gender_adapt, dots) ==
  IF dots.st # "ok" THEN dots
  ELSE ReplaceSlashed(gender, SlashesPass(dots.v, gender_adapt, dots.c))

\* a result that carries the gender used for agreement
ReplaceAdaptedStoresAgreement(gender, text, ga) ==
  IF ga.st # "ok" THEN ga
  ELSE ReplaceDotted(ga.v, ga.v, DotsPass(text, ga.v, ga.c))

\* lines 312-357
ReplaceAdapted(gender, text, ga) ==
  IF ga.st # "ok" THEN ga
  ELSE ReplaceDotted(gender, ga.v, DotsPass(text, ga.v, ga.c))

\* lines 303-310: the gender of the declared dependency, with ?
ReplaceInstantiated(r, gender, ins) ==
  IF ins.st # "ok" THEN ins
  ELSE ReplaceAdapted(gender, ins.v,
                      IF r.gender_dependency.some
                      THEN get_gender(r.gender_dependency.v, ins.c)
                      ELSE Ret("ok", "Neutral", ins.c))

\* lines 297-301
ReplaceReinstantiated(r, gender, re) ==
  IF re.st # "ok" THEN re
  ELSE ReplaceInstantiated(r, gender, InstantiatePass(re.v, re.c))

\* lines 269-295: at most one gender marker, removed
ReplaceMarked(r, caps, s, c) ==
  IF Len(caps) > 1 THEN Ret("err", "MultipleGenderMarkers", c)
  ELSE ReplaceReinstantiated(r, IF caps = <<>> THEN "Neutral" ELSE GenderOfMarker(caps[1]),
                             ReinstantiatePass(s, c))

\* lines 262-267: the variant
ReplacePicked(r, pick, c) ==
  ReplaceMarked(r, SetGenderCaptures(pick.s), SetGenderStrip(pick.s),
                [c EXCEPT !.rng = pick.rng])

replace_content(r, c) == ReplacePicked(r, Choose(r.content, c.rng), c)

\* capitalize() as instantiate_util returns it (lines 398 and 422)
Capitalized(symbol, content, c) ==
  IF capitalize(symbol, content).st = "ok"
  THEN Ret("ok", capitalize(symbol, content).s, c)
  ELSE Ret("panic", "unreachable", c)

\* a memo check that never finds the entry
MemoizedNever(low_symbol, c) == FALSE

\* the memo check (line 397)
Memoized(low_symbol, c) == Has(c.replaced, low_symbol)

\* a cycle check that looks in the guard only from the second nested call on
InGuardLate(low_symbol, c) == c.depth >= 2 /\ low_symbol \in c.stack

\* the cycle check (line 401)
InGuard(low_symbol, c) == low_symbol \in c.stack

\* a resolution that leaves the symbol in the guard
ResolvedKeepsGuard(symbol, low_symbol, depth, r) ==
  IF r.st # "ok" THEN r
  ELSE Capitalized(symbol, r.v.content,
                   [r.c EXCEPT !.replaced = Insert(@, low_symbol, r.v),
                               !.depth = depth])

\* lines 410-424: the entry is stored, the guard released, the text returned
Resolved(symbol, low_symbol, depth, r) ==
  IF r.st # "ok" THEN r
  ELSE Capitalized(symbol, r.v.content,
                   [r.c EXCEPT !.replaced = Insert(@, low_symbol, r.v),
                               !.stack = @ \ {low_symbol},
                               !.depth = depth])

\* lines 407-417, entered with the symbol in the guard
Guarded(symbol, low_symbol, depth, c) ==
  IF Has(c.self.replacements, low_symbol)
  THEN Resolved(symbol, low_symbol, depth,
                replace_content(Get(c.self.replacements, low_symbol), c))
  ELSE Ret("err", "UnknownSymbol", c)

Lowered(symbol, low_symbol, c) ==
  IF Memoized(low_symbol, c)
  THEN Capitalized(symbol, Get(c.replaced, low_symbol).content, c)
  ELSE IF InGuard(low_symbol, c) THEN Ret("err", "CyclicDependency", c)
  ELSE IF c.depth >= MaxDepth THEN Ret("overflow", <<>>, c)
  ELSE Guarded(symbol, low_symbol, c.depth,
               [c EXCEPT !.stack = @ \cup {low_symbol}, !.depth = @ + 1,
                         !.maxdepth = IF c.depth + 1 > @ THEN c.depth + 1 ELSE @])

instantiate_util(symbol, c) == Lowered(symbol, to_lowercase(symbol), c)

\* post_process() of the final string of a top-level call (lines 434, 496)
PostProcessed(r) ==
  IF r.st # "ok" THEN r
  ELSE IF post_process(r.v).st = "ok" THEN Ret("ok", post_process(r.v).s, r.c)
  ELSE Ret("panic", "unreachable", r.c)

\* instantiate and instantiate_from_seed differ in the random source only
instantiate_with(self, symbol, rng) ==
  PostProcessed(instantiate_util(symbol, Context(self, self.replaced, rng)))

RECURSIVE MsgBindings(_, _)

\* a binding of msg was resolved to r: it is inserted and the next one follows
MsgBound(v, r) ==
  IF r.st # "ok" THEN r
  ELSE MsgBindings(Tail(v), [r.c EXCEPT !.replaced = Insert(@, to_lowercase(v[1][1]), r.v)])

\* the loop of msg over its bindings (lines 467-475)
MsgBindings(v, c) ==
  IF v = <<>> THEN Ret("ok", <<>>, c)
  ELSE MsgBound(v, replace_content(Replacement(None, <<v[1][2]>>), c))

MsgReturned(r) == IF r.st # "ok" THEN r ELSE Ret("ok", r.v.content, r.c)

MsgTemplate(s, b) ==
  IF b.st # "ok" THEN b
  ELSE MsgReturned(replace_content(Replacement(None, <<s>>), b.c))

msg(self, s, v, rng) == MsgTemplate(s, MsgBindings(v, Context(self, self.replaced, rng)))

----------------------------------------------------------------------------
(* Registration *)

\* the last match of \[(\w*)\] in symbol that (.*) can reach: its start, 0 if none
RECURSIVE LastDependencyAt(_, _)
LastDependencyAt(s, i) ==
  IF i < 1 THEN 0
  ELSE IF /\ s[i] = "["
          /\ Len(s) >= i + 1 + WordRun(Drop(s, i))
          /\ s[i + 1 + WordRun(Drop(s, i))] = "]"
          /\ \A k \in 1..(i - 1) : IsDot(s[k])
       THEN i
       ELSE LastDependencyAt(s, i - 1)

\* lines 153-174, on the escaped symbol and variants
AddParsed(self, symbol, content, at) ==
  IF at > 0
  THEN [self EXCEPT !.replacements =
          Insert(@, Take(symbol, at - 1),
                 Replacement(Some(SubSeq(symbol, at + 1, at + WordRun(Drop(symbol, at)))),
                             content))]
  ELSE [self EXCEPT !.replacements = Insert(@, symbol, Replacement(None, content))]

AddEscaped(self, symbol, content) ==
  AddParsed(self, symbol, content, LastDependencyAt(symbol, Len(symbol)))

add_move(self, symbol, content) ==
  AddEscaped(self, pre_process(symbol), [i \in DOMAIN content |-> pre_process(content[i])])

add(self, symbol, content) == add_move(self, to_lowercase(symbol), content)

\* add_json: one add_move per entry of the map; the documents of the model
\* keep their keys distinct after normalisation, so the order is immaterial
RECURSIVE add_json(_, _)
add_json(self, json) ==
  IF json = <<>> THEN self
  ELSE add_json(add_move(self, to_lowercase(json[1][1]), json[1][2]), Tail(json))

set_gender(self, symbol, gender) ==
  [self EXCEPT !.replaced = Insert(@, symbol, Replaced(<<>>, gender))]

----------------------------------------------------------------------------
(* The state machine *)

Gen == [replacements |-> replacements, replaced |-> replaced]

NoCall ==
  [op |-> "none", symbol |-> <<>>, bindings |-> <<>>, seed |-> 0, st |-> "ok",
   v |-> <<>>, rng |-> 0, log |-> <<>>, replaced |-> EmptyMap, stack |-> {},
   maxdepth |-> 0, at |-> 0, again |-> FALSE, before |-> [st |-> "ok", v |-> <<>>]]

NoProbe == [fn |-> "none"]

\* the call repeats the one before it, and the generator is the same
Repeats(op, symbol, bindings, seed) ==
  /\ call.op = op /\ call.symbol = symbol /\ call.bindings = bindings
  /\ call.seed = seed /\ call.at = ops

\* what a top-level call leaves for the properties to read: the arguments, the
\* result r, and, when the call repeats the one before it on a generator that
\* no registration or gender setting changed in between, what that one returned
Called(op, symbol, bindings, seed, r) ==
  [op |-> op, symbol |-> symbol, bindings |-> bindings, seed |-> seed,
   st |-> r.st, v |-> r.v, rng |-> r.c.rng, log |-> r.c.log,
   replaced |-> r.c.replaced, stack |-> r.c.stack, maxdepth |-> r.c.maxdepth,
   at |-> ops,
   again |-> Repeats(op, symbol, bindings, seed),
   before |-> IF Repeats(op, symbol, bindings, seed) THEN [st |-> call.st, v |-> call.v]
              ELSE NoCall.before]

\* every string of at most n characters of cs
Strings(cs, n) == UNION {[1..k -> cs] : k \in 0..n}

RECURSIVE Flatten(_)
Flatten(ss) == IF ss = <<>> THEN <<>> ELSE ss[1] \o Flatten(Tail(ss))

Init ==
  /\ replacements = EmptyMap
  /\ replaced = EmptyMap
  /\ call = NoCall
  /\ ops = 0
  /\ probe = NoProbe

\* bound of the number of registrations and gender settings of a behaviour
MaxOps == 2

\* the seeds and the states the thread's generator may be in when a call starts
Seeds == {0, 2, 6, 13}

Entropy == {0, 2, 6, 13}

\* call records the last call on the generator as it is now: an operation that
\* changes the generator discards the record
AddJson(json) ==
  /\ ops < MaxOps
  /\ replacements' = add_json(Gen, json).replacements
  /\ ops' = ops + 1
  /\ call' = NoCall
  /\ UNCHANGED <<replaced, probe>>

Add(symbol, content) ==
  /\ ops < MaxOps
  /\ replacements' = add(Gen, symbol, content).replacements
  /\ ops' = ops + 1
  /\ call' = NoCall
  /\ UNCHANGED <<replaced, probe>>

SetGender(symbol, gender) ==
  /\ ops < MaxOps
  /\ replaced' = set_gender(Gen, symbol, gender).replaced
  /\ ops' = ops + 1
  /\ call' = NoCall
  /\ UNCHANGED <<replacements, probe>>

Instantiate(symbol, entropy) ==
  /\ call' = Called("instantiate", symbol, <<>>, 0,
                    instantiate_with(Gen, symbol, thread_rng(entropy)))
  /\ UNCHANGED <<replacements, replaced, ops, probe>>

InstantiateFromSeed(symbol, seed) ==
  /\ call' = Called("instantiate_from_seed", symbol, <<>>, seed,
                    instantiate_with(Gen, symbol, seed_from_u64(seed)))
  /\ UNCHANGED <<replacements, replaced, ops, probe>>

Msg(s, v, entropy) ==
  /\ call' = Called("msg", s, v, 0, msg(Gen, s, v, thread_rng(entropy)))
  /\ UNCHANGED <<replacements, replaced, ops, probe>>

\* memoized and independent references, with and without a gender source
MemoDocs ==
  { << <<<<"s">>, <<<<"a">>, <<"b">>>>>>,
       <<<<"t">>, <<<<"{","s","}">>>>>>,
       <<<<"m","a","i","n">>, <<<<"{","s","}","{","t","}","{","S","}">>>>>> >>,
    << <<<<"s">>, <<<<"a">>, <<"b">>>>>>,
       <<<<"x">>, <<<<"{","s","}">>>>>>,
       <<<<"m","a","i","n">>, <<<<"{","s","}","{","{","x","}","}","{","{","s","}","}">>>>>> >>,
    << <<<<"h","e","r","o">>, <<<<"j","[","m","]">>, <<"o","[","f","]">>>>>>,
       <<<<"d">>, <<<<"{","h","e","r","o","}">>>>>>,
       <<<<"m","a","i","n","[","h","e","r","o","]">>, <<<<"i","/","e"," ","{","h","e","r","o","}","{","{","d","}","}">>>>>> >> }

NextMemo ==
  \/ \E json \in MemoDocs : AddJson(json)
  \/ Add(<<"s">>, <<<<"c">>>>)
  \/ \E symbol \in {<<"s">>, <<"h","e","r","o">>} : SetGender(symbol, "Female")
  \/ \E symbol \in {<<"m","a","i","n">>, <<"s">>}, entropy \in Entropy : Instantiate(symbol, entropy)
  \/ \E symbol \in {<<"m","a","i","n">>, <<"s">>}, seed \in Seeds : InstantiateFromSeed(symbol, seed)

SpecMemo == Init /\ [][NextMemo]_vars

\* cycles and unknown symbols, through every kind of reference
ErrDocs ==
  { << <<<<"a","[","b","]">>, <<<<"f">>>>>>,
       <<<<"b","[","a","]">>, <<<<"g">>>>>>,
       <<<<"c">>, <<<<"{","d","}">>>>>>,
       <<<<"d">>, <<<<"{","c","}">>>>>> >>,
    << <<<<"a","[","b","]">>, <<<<"f">>>>>>,
       <<<<"b","[","z","]">>, <<<<"g">>>>>>,
       <<<<"p">>, <<<<"{","z","}">>>>>>,
       <<<<"q">>, <<<<"{","{","z","}","}">>>>>>,
       <<<<"r">>, <<<<"u","/","v","[","z","]">>>>>> >> }

NextErr ==
  \/ \E json \in ErrDocs : AddJson(json)
  \/ \E symbol \in {<<"b">>, <<"d">>, <<"z">>} : SetGender(symbol, "Male")
  \/ \E symbol \in {<<"a">>, <<"c">>, <<"p">>, <<"q">>, <<"r">>, <<"z">>}, entropy \in Entropy :
        Instantiate(symbol, entropy)

SpecErr == Init /\ [][NextErr]_vars

\* agreement markup: one rule per shape of the slash and dot forms.  A shape
\* gives the segments, the override written after them and the dependency the
\* rule declares; the variant is built from it.
SlashShapes ==
  { [name |-> <<"s","a">>, dep |-> Some(<<"p","l","o","p">>), male |-> <<"i","l">>, female |-> <<"e","l","l","e">>,
     neutral |-> None, override |-> None],
    [name |-> <<"s","b">>, dep |-> Some(<<"p","l","o","p">>), male |-> <<"i","l">>, female |-> <<"e","l","l","e">>,
     neutral |-> Some(<<"i","e","l">>), override |-> None],
    [name |-> <<"s","c">>, dep |-> Some(<<"p","l","o","p">>), male |-> <<"a","u">>, female |-> <<"a","~"," ","l","a">>,
     neutral |-> None, override |-> Some(<<"a","r","m","e">>)],
    [name |-> <<"s","d">>, dep |-> Some(<<"p","l","o","p">>), male |-> <<"i","l">>, female |-> <<"e","l","l","e">>,
     neutral |-> Some(<<"i","e","l">>), override |-> Some(<<"a","r","m","e">>)],
    [name |-> <<"s","e">>, dep |-> None, male |-> <<"i","l">>, female |-> <<"e","l","l","e">>,
     neutral |-> None, override |-> None] }

DotShapes ==
  { [name |-> <<"d","a">>, dep |-> Some(<<"p","l","o","p">>), segments |-> <<<<"u","n">>, <<"e">>>>,
     override |-> None],
    [name |-> <<"d","b">>, dep |-> Some(<<"p","l","o","p">>), segments |-> <<<<"s","o","r","c","i">>, <<"e","r">>, <<"e","r","e">>>>,
     override |-> None],
    [name |-> <<"d","c">>, dep |-> Some(<<"p","l","o","p">>), segments |-> <<<<"a","c","t">>, <<"e","u","r">>, <<"r","i","c","e">>, <<"s">>>>,
     override |-> None],
    [name |-> <<"d","d">>, dep |-> Some(<<"p","l","o","p">>), segments |-> <<<<"u","n">>, <<"e">>>>,
     override |-> Some(<<"a","r","m","e">>)],
    [name |-> <<"d","e">>, dep |-> Some(<<"p","l","o","p">>), segments |-> <<<<"a","c","t">>, <<"e","u","r">>, <<"r","i","c","e">>, <<"s">>>>,
     override |-> Some(<<"a","r","m","e">>)],
    [name |-> <<"d","f">>, dep |-> None, segments |-> <<<<"s","o","r","c","i">>, <<"e","r">>, <<"e","r","e">>>>,
     override |-> None] }

Bracketed(o) == IF o.some THEN <<"[">> \o o.v \o <<"]">> ELSE <<>>

RuleName(shape) == shape.name \o Bracketed(shape.dep)

SlashVariant(shape) ==
  <<"w"," ">> \o shape.male \o <<"/">> \o shape.female
    \o (IF shape.neutral.some THEN <<"/">> \o shape.neutral.v ELSE <<>>)
    \o Bracketed(shape.override) \o <<" ","z">>

RECURSIVE Dotted(_)
Dotted(segments) ==
  IF Len(segments) = 1 THEN segments[1]
  ELSE segments[1] \o <<"·">> \o Dotted(Tail(segments))

DotVariant(shape) == <<"w"," ">> \o Dotted(shape.segments) \o Bracketed(shape.override) \o <<" ","z">>

\* the sources of gender: rules whose variants carry a marker, or none
GenderSources ==
  << <<<<"p","l","o","p">>, <<<<"j","[","m","]">>, <<"o","[","f","]">>, <<"g">>>>>>,
     <<<<"a","r","m","e">>, <<<<"b","[","m","]">>, <<"c","[","f","]">>, <<"d">>>>>> >>

RECURSIVE SetToSeq(_)
SetToSeq(S) ==
  IF S = {} THEN <<>>
  ELSE <<CHOOSE x \in S : TRUE>> \o SetToSeq(S \ {CHOOSE x \in S : TRUE})

SlashDoc ==
  GenderSources
    \o SetToSeq({<<RuleName(shape), <<SlashVariant(shape)>>>> : shape \in SlashShapes})

DotDoc ==
  GenderSources
    \o SetToSeq({<<RuleName(shape), <<DotVariant(shape)>>>> : shape \in DotShapes})

Genders == {"Male", "Female", "Neutral"}

NextSlash ==
  \/ AddJson(SlashDoc)
  \/ \E symbol \in {GenderSources[1][1], GenderSources[2][1]}, gender \in Genders :
        SetGender(symbol, gender)
  \/ \E shape \in SlashShapes, entropy \in Entropy : Instantiate(shape.name, entropy)

SpecSlash == Init /\ [][NextSlash]_vars

NextDot ==
  \/ AddJson(DotDoc)
  \/ \E symbol \in {GenderSources[1][1], GenderSources[2][1]}, gender \in Genders :
        SetGender(symbol, gender)
  \/ \E shape \in DotShapes, entropy \in Entropy : Instantiate(shape.name, entropy)

SpecDot == Init /\ [][NextDot]_vars

\* message mode, beside a registered rule
MsgInputs ==
  { [s |-> <<"{","d","o","g","g","o","}"," ","h","e","/","s","h","e","[","d","o","g","g","o","]">>, v |-> << <<<<"d","o","g","g","o">>, <<"z","[","f","]">>>> >>],
    [s |-> <<"{","D","O","G","}">>, v |-> <<>>],
    [s |-> <<"a","~"," ","b">>, v |-> <<>>],
    [s |-> <<"{","x","}">>, v |-> << <<<<"x">>, <<"~","{">>>> >>] }

NextMsg ==
  \/ Add(<<"D","o","g">>, <<<<"g","d">>>>)
  \/ \E gender \in Genders : SetGender(<<"d","o","g","g","o">>, gender)
  \/ \E in \in MsgInputs, entropy \in Entropy : Msg(in.s, in.v, entropy)
  \/ \E entropy \in Entropy : Instantiate(<<"d","o","g">>, entropy)

SpecMsg == Init /\ [][NextMsg]_vars

\* gender markers, lower-case and upper-case, one or several in a variant
MarkerVariants ==
  { <<"j">>, <<"j","[","m","]">>, <<"[","f","]","j">>, <<"j","[","n","]">>, <<"j","[","M","]">>, <<"j","[","F","]">>, <<"j","[","N","]">>,
    <<"j","[","m","]","[","f","]">>, <<"[","M","]","j","[","F","]">>, <<"j","[","m","]","[","F","]">> }

NextMarker ==
  \/ \E variant \in MarkerVariants : Add(<<"x">>, <<variant>>)
  \/ Add(<<"y","[","x","]">>, <<<<"i","l","/","e","l","l","e">>>>)
  \/ \E symbol \in {<<"x">>, <<"y">>}, entropy \in Entropy : Instantiate(symbol, entropy)

SpecMarker == Init /\ [][NextMarker]_vars

\* names written with upper-case letters: as a key, as a pre-set gender, in
\* a reference, as a declared dependency and as an override
CaseDoc ==
  << <<<<"P","l","o","p">>, <<<<"j","[","m","]">>, <<"o","[","f","]">>>>>>,
     <<<<"o">>, <<<<"i","l","/","e","l","l","e","[","P","l","o","p","]">>>>>>,
     <<<<"d","[","P","l","o","p","]">>, <<<<"i","l","/","e","l","l","e"," ","{","P","l","o","p","}">>>>>> >>

NextCase ==
  \/ AddJson(CaseDoc)
  \/ \E symbol \in {<<"P","l","o","p">>, <<"p","l","o","p">>}, gender \in {"Male", "Female"} :
        SetGender(symbol, gender)
  \/ \E symbol \in {<<"o">>, <<"D">>, <<"P","l","o","p">>}, entropy \in Entropy : Instantiate(symbol, entropy)

SpecCase == Init /\ [][NextCase]_vars

\* the recursion guard: a diamond whose base is also a gender source, a chain,
\* cycles through references and dependencies, a rule whose override names
\* the rule itself
GuardDocs ==
  { << <<<<"t","o","p">>, <<<<"{","l","}","{","r","}">>>>>>,
       <<<<"l","[","s","]">>, <<<<"{","s","}","x","/","y">>>>>>,
       <<<<"r">>, <<<<"{","S","}","y","/","z","[","s","]">>>>>>,
       <<<<"s">>, <<<<"a","[","m","]">>, <<"b","[","f","]">>>>>> >>,
    << <<<<"c","a">>, <<<<"{","c","b","}">>>>>>,
       <<<<"c","b">>, <<<<"{","c","c","}">>>>>>,
       <<<<"c","c">>, <<<<"{","c","d","}">>>>>>,
       <<<<"c","d","[","c","e","]">>, <<<<"d">>>>>>,
       <<<<"c","e">>, <<<<"e","[","f","]">>>>>> >>,
    << <<<<"a","[","b","]">>, <<<<"f">>>>>>,
       <<<<"b","[","a","]">>, <<<<"g">>>>>>,
       <<<<"c">>, <<<<"{","d","}">>>>>>,
       <<<<"d">>, <<<<"{","c","}">>>>>> >>,
    << <<<<"v">>, <<<<"u","/","w","[","v","]">>>>>> >> }

NextGuard ==
  \/ \E json \in GuardDocs : AddJson(json)
  \/ \E symbol \in {<<"s">>, <<"b">>} : SetGender(symbol, "Male")
  \/ \E symbol \in {<<"t","o","p">>, <<"c","a">>, <<"a">>, <<"c">>, <<"v">>}, entropy \in Entropy :
        Instantiate(symbol, entropy)

SpecGuard == Init /\ [][NextGuard]_vars

\* reinstantiation: after a symbol was resolved by the enclosing call, and on
\* cycles that pass through {{ }}
FreshDocs ==
  { << <<<<"t","o","p">>, <<<<"{","s","}","{","m","}">>>>>>,
       <<<<"m">>, <<<<"{","{","x","}","}">>>>>>,
       <<<<"x">>, <<<<"{","s","}">>>>>>,
       <<<<"s">>, <<<<"a">>, <<"b">>>>>> >>,
    << <<<<"a">>, <<<<"{","{","a","}","}">>>>>> >>,
    << <<<<"a">>, <<<<"{","{","b","}","}">>>>>>,
       <<<<"b">>, <<<<"{","a","}">>>>>> >> }

NextFresh ==
  \/ \E json \in FreshDocs : AddJson(json)
  \/ \E symbol \in {<<"s">>, <<"b">>} : SetGender(symbol, "Female")
  \/ \E symbol \in {<<"t","o","p">>, <<"a">>}, entropy \in Entropy : Instantiate(symbol, entropy)
  \/ \E seed \in Seeds : InstantiateFromSeed(<<"t","o","p">>, seed)

SpecFresh == Init /\ [][NextFresh]_vars

\* rules that agree with one symbol and are the gender source of another
StoredDoc ==
  << <<<<"p","l","o","p">>, <<<<"j","[","m","]">>, <<"o","[","f","]">>, <<"g">>>>>>,
     <<<<"x","[","p","l","o","p","]">>, <<<<"i","l","/","e","l","l","e">>>>>>,
     <<<<"w","[","p","l","o","p","]">>, <<<<"[","f","]","i","l","/","e","l","l","e">>>>>>,
     <<<<"o">>, <<<<"u","n","·","e","[","p","l","o","p","]">>>>>>,
     <<<<"y","[","x","]">>, <<<<"u","n","/","u","n","e","/","u","n","x">>>>>>,
     <<<<"z","[","w","]">>, <<<<"u","n","/","u","n","e","/","u","n","x">>>>>>,
     <<<<"q">>, <<<<"u","n","/","u","n","e","/","u","n","x","[","o","]">>>>>> >>

NextStored ==
  \/ AddJson(StoredDoc)
  \/ \E gender \in Genders : SetGender(<<"p","l","o","p">>, gender)
  \/ \E symbol \in {<<"y">>, <<"z">>, <<"q">>, <<"x">>}, entropy \in Entropy : Instantiate(symbol, entropy)

SpecStored == Init /\ [][NextStored]_vars

\* a symbol that has a rule and a pre-set gender: referenced, used as a
\* dependency and as an override, reached through {{ }}, bound in a message
ShadowDoc ==
  << <<<<"h","s">>, <<<<"a","[","f","]">>, <<"b","[","m","]">>>>>>,
     <<<<"t","[","h","s","]">>, <<<<"{","h","s","}","i","l","/","e","l","l","e">>>>>>,
     <<<<"u">>, <<<<"x","/","y","[","h","s","]">>>>>>,
     <<<<"m">>, <<<<"{","{","t","}","}">>>>>>,
     <<<<"c">>, <<<<"{","H","s","}">>>>>> >>

ShadowInputs ==
  { [s |-> <<"{","h","s","}","i","l","/","e","l","l","e","[","h","s","]">>, v |-> <<>>],
    [s |-> <<"{","h","s","}","i","l","/","e","l","l","e","[","h","s","]">>, v |-> << <<<<"h","s">>, <<"z","[","f","]">>>> >>] }

NextShadow ==
  \/ AddJson(ShadowDoc)
  \/ \E gender \in Genders : SetGender(<<"h","s">>, gender)
  \/ \E symbol \in {<<"h","s">>, <<"t">>, <<"u">>, <<"m">>, <<"c">>}, entropy \in Entropy :
        Instantiate(symbol, entropy)
  \/ \E in \in ShadowInputs, entropy \in Entropy : Msg(in.s, in.v, entropy)

SpecShadow == Init /\ [][NextShadow]_vars

\* bounds of the inputs of the pure functions
MaxTokens == 3
MaxSymbolLen == 3
MaxContentLen == 2

EscapeTokens ==
  {<<"~">>, <<" ">>, <<"[">>, <<"]">>, <<"{">>, <<"}">>, <<"/">>, <<"·">>,
   <<"a">>, <<"<">>, <<"\n">>, <<"<","s","p","a","c","e",">">>}

EscapeInputs == {Flatten(ts) : ts \in Strings(EscapeTokens, MaxTokens)}

InitEscape ==
  /\ replacements = EmptyMap
  /\ replaced = EmptyMap
  /\ call = NoCall
  /\ ops = 0
  /\ probe \in {[fn |-> "escape", stage |-> "input", input |-> s, escaped |-> <<>>,
                 output |-> Ok(<<>>)] : s \in EscapeInputs}

PreProcess ==
  /\ probe.fn = "escape" /\ probe.stage = "input"
  /\ probe' = [probe EXCEPT !.stage = "escaped", !.escaped = pre_process(probe.input)]
  /\ UNCHANGED <<replacements, replaced, call, ops>>

PostProcess ==
  /\ probe.fn = "escape" /\ probe.stage = "escaped"
  /\ probe' = [probe EXCEPT !.stage = "unescaped", !.output = post_process(probe.escaped)]
  /\ UNCHANGED <<replacements, replaced, call, ops>>

NextEscape == PreProcess \/ PostProcess

SpecEscape == InitEscape /\ [][NextEscape]_vars

InitCapitalize ==
  /\ replacements = EmptyMap
  /\ replaced = EmptyMap
  /\ call = NoCall
  /\ ops = 0
  /\ probe \in {[fn |-> "capitalize", stage |-> "input", symbol |-> s, content |-> c,
                 output |-> Ok(<<>>)] :
                  s \in Strings({"f", "O", "1"}, MaxSymbolLen),
                  c \in Strings({"b", "A", " "}, MaxContentLen)}

Capitalize ==
  /\ probe.fn = "capitalize" /\ probe.stage = "input"
  /\ probe' = [probe EXCEPT !.stage = "output",
                            !.output = capitalize(probe.symbol, probe.content)]
  /\ UNCHANGED <<replacements, replaced, call, ops>>

NextCapitalize == Capitalize

SpecCapitalize == InitCapitalize /\ [][NextCapitalize]_vars

----------------------------------------------------------------------------
(* Pattern escaper: properties *)

Recognized == {" ", "~", "[", "]", "{", "}", "/", "·"}

\* position i of s holds an escape marker: a ~ that no earlier marker has
\* consumed, followed by a character on the same line
RECURSIVE MarkerAt(_, _)
MarkerAt(s, i) ==
  /\ i >= 1 /\ i < Len(s)
  /\ s[i] = "~" /\ s[i + 1] # "\n"
  /\ ~MarkerAt(s, i - 1)

TagOf(c) ==
  CASE c = " " -> TagSpace
    [] c = "~" -> TagTilde
    [] c = "[" -> TagLeftSquare
    [] c = "]" -> TagRightSquare
    [] c = "{" -> TagLeftCurly
    [] c = "}" -> TagRightCurly
    [] c = "/" -> TagSlash
    [] OTHER -> TagMedian

\* s with the marker of every escape sequence removed
Literal(s) == Flatten([i \in DOMAIN s |-> IF MarkerAt(s, i) THEN <<>> ELSE <<s[i]>>])

\* s with every recognized sequence turned into its placeholder and the
\* marker of every other sequence removed
Escaped(s) ==
  Flatten([i \in DOMAIN s |->
             IF MarkerAt(s, i) THEN <<>>
             ELSE IF MarkerAt(s, i - 1) /\ s[i] \in Recognized THEN Tag(TagOf(s[i]))
             ELSE <<s[i]>>])

\* s with every recognized sequence turned into its placeholder and nothing
\* else changed
PassedThrough(s) ==
  Flatten([i \in DOMAIN s |->
             IF MarkerAt(s, i) /\ s[i + 1] \in Recognized THEN <<>>
             ELSE IF MarkerAt(s, i - 1) /\ s[i] \in Recognized THEN Tag(TagOf(s[i]))
             ELSE <<s[i]>>])

\* C9 as stated: unescape(escape(s)) = s
C9_RoundTripIdentity ==
  (probe.fn = "escape" /\ probe.stage = "unescaped") => probe.output = Ok(probe.input)

\* C9, amended: unescape(escape(s)) is s with every escape sequence replaced
\* by the literal character it stands for (the marker is gone), hence s itself
\* only when s holds no escape sequence
C9_RoundTripLiteral ==
  (probe.fn = "escape" /\ probe.stage = "unescaped") =>
     probe.output = Ok(Literal(probe.input))

C9_Witness ==
  /\ probe.fn = "escape" /\ probe.stage = "unescaped"
  /\ \E i \in DOMAIN probe.input :
       MarkerAt(probe.input, i) /\ probe.input[i + 1] = "["
  /\ probe.output.st = "ok" /\ probe.output.s # probe.input

\* C10 as stated: a marker before an unrecognized character is left untouched,
\* and only the recognized sequences change
C10_PassThrough ==
  (probe.fn = "escape" /\ probe.stage = "escaped") =>
     probe.escaped = PassedThrough(probe.input)

\* C10, amended: a marker before a character outside the recognized set is
\* removed and that character kept (a marker that ends the string or stands
\* before a line feed stays); the recognized sequences become placeholders and
\* nothing else changes
C10_MarkerDropped ==
  (probe.fn = "escape" /\ probe.stage = "escaped") =>
     probe.escaped = Escaped(probe.input)

C10_Witness ==
  /\ probe.fn = "escape" /\ probe.stage = "escaped"
  /\ \E i \in DOMAIN probe.input :
       MarkerAt(probe.input, i) /\ probe.input[i + 1] = "a"
  /\ probe.escaped # probe.input

----------------------------------------------------------------------------
(* Capitalization adapter: properties *)

HasUpper(s) == \E i \in DOMAIN s : is_uppercase(s[i])

FirstUpperOnly(s) == IF s = <<>> THEN <<>> ELSE <<char_to_uppercase(s[1])>> \o Tail(s)

\* C5: the content unchanged for a spelling without upper-case letter, with
\* its first character upper-cased for a spelling whose first character is
\* upper-case and that has a lower-case character, fully upper-cased for a
\* spelling whose letters are all upper-case; the empty content included
C5_Capitalize ==
  (probe.fn = "capitalize" /\ probe.stage = "output") =>
     LET s == probe.symbol
         c == probe.content
     IN /\ ~HasUpper(s) => probe.output = Ok(c)
        /\ (s # <<>> /\ is_uppercase(s[1]) /\ \E i \in 2..Len(s) : is_lowercase(s[i]))
              => probe.output = Ok(FirstUpperOnly(c))
        /\ (HasUpper(s) /\ \A i \in DOMAIN s : ~is_lowercase(s[i]))
              => probe.output = Ok(to_uppercase(c))


----------------------------------------------------------------------------
(* Memoization and determinism: properties *)

----------------------------------------------------------------------------
(* Cycles and unknown symbols: properties *)

\* the symbols a stored variant names in {symbol} references, those inside
\* {{ }} left out
RECURSIVE MemoRefs(_)
MemoRefs(s) ==
  IF s = <<>> THEN {}
  ELSE IF ReinstantiateAt(s) THEN MemoRefs(Drop(s, 4 + WordRun(Drop(s, 2))))
  ELSE IF InstantiateAt(s)
    THEN {to_lowercase(SubSeq(s, 2, 1 + WordRun(Tail(s))))}
           \cup MemoRefs(Drop(s, 2 + WordRun(Tail(s))))
  ELSE MemoRefs(Tail(s))

\* the symbols a stored variant names in {{symbol}} references
RECURSIVE FreshRefs(_)
FreshRefs(s) ==
  IF s = <<>> THEN {}
  ELSE IF ReinstantiateAt(s)
    THEN {to_lowercase(SubSeq(s, 3, 2 + WordRun(Drop(s, 2))))}
           \cup FreshRefs(Drop(s, 4 + WordRun(Drop(s, 2))))
  ELSE FreshRefs(Tail(s))

\* the symbols a stored variant names in a [symbol] bracket
RECURSIVE BracketRefs(_)
BracketRefs(s) ==
  IF s = <<>> THEN {}
  ELSE IF s[1] = "[" /\ WordRun(Tail(s)) > 0 /\ Len(s) >= 2 + WordRun(Tail(s))
          /\ s[2 + WordRun(Tail(s))] = "]"
    THEN {SubSeq(s, 2, 1 + WordRun(Tail(s)))} \cup BracketRefs(Drop(s, 2 + WordRun(Tail(s))))
  ELSE BracketRefs(Tail(s))

DependencyOf(x) ==
  IF replacements[x].gender_dependency.some THEN {replacements[x].gender_dependency.v} ELSE {}

\* the edges the cycles of C3 are made of: memoized references and declared
\* gender dependencies of the rule of x
CycleEdges(x) ==
  IF x \notin DOMAIN replacements THEN {}
  ELSE DependencyOf(x)
         \cup UNION {MemoRefs(replacements[x].content[i]) : i \in DOMAIN replacements[x].content}

\* every way the rule of x names another symbol
AllEdges(x) ==
  IF x \notin DOMAIN replacements \/ x \in DOMAIN replaced THEN {}
  ELSE CycleEdges(x)
         \cup UNION {FreshRefs(replacements[x].content[i]) \cup BracketRefs(replacements[x].content[i]) :
                        i \in DOMAIN replacements[x].content}

RECURSIVE CycleClosure(_)
CycleClosure(S) ==
  IF UNION {CycleEdges(x) : x \in S} \subseteq S THEN S
  ELSE CycleClosure(S \cup UNION {CycleEdges(x) : x \in S})

RECURSIVE AllClosure(_)
AllClosure(S) ==
  IF UNION {AllEdges(x) : x \in S} \subseteq S THEN S
  ELSE AllClosure(S \cup UNION {AllEdges(x) : x \in S})

DependsOnItself(x) == x \in CycleClosure(CycleEdges(x))

\* C3: instantiate on a symbol that depends on itself through {symbol}
\* references and gender dependencies, none of the symbols it depends on being
\* pre-set, returns the CyclicDependency error
C3_CycleRejected ==
  (/\ call.op = "instantiate"
   /\ DependsOnItself(to_lowercase(call.symbol))
   /\ CycleClosure({to_lowercase(call.symbol)}) \cap DOMAIN replaced = {})
    => (call.st = "err" /\ call.v = "CyclicDependency")

\* C4: instantiate whose expansion reaches a symbol with no rule and no
\* pre-set gender returns an error value to its caller
C4_UnknownReported ==
  (/\ call.op = "instantiate"
   /\ \E x \in AllClosure({to_lowercase(call.symbol)}) :
         x \notin DOMAIN replacements /\ x \notin DOMAIN replaced
   /\ call.v = "UnknownSymbol")
    => call.st = "err"

----------------------------------------------------------------------------
(* Agreement markup: properties *)

\* the gender a shape's markup follows, read from what the call resolved
GenderFollowed(shape) ==
  IF shape.override.some THEN call.replaced[shape.override.v].gender
  ELSE IF shape.dep.some THEN call.replaced[shape.dep.v].gender
  ELSE "Neutral"

Registered(shape, variant) ==
  /\ call.op = "instantiate" /\ call.st = "ok" /\ call.symbol = shape.name
  /\ shape.name \in DOMAIN replacements
  /\ replacements[shape.name] = Replacement(shape.dep, <<pre_process(variant)>>)

SlashExpected(shape, gender) ==
  CASE gender = "Male" -> shape.male
    [] gender = "Female" -> shape.female
    [] OTHER -> IF shape.neutral.some THEN shape.neutral.v
                ELSE shape.male \o <<"/">> \o shape.female

\* C6: a slash form is replaced by its male branch, its female branch, or for
\* Neutral its neutral branch if it has one and male/female otherwise, by the
\* gender of the override if there is one, of the rule's dependency otherwise,
\* Neutral without either; the bracket of the override is consumed
C6_SlashAgreement ==
  \A shape \in SlashShapes :
     Registered(shape, SlashVariant(shape)) =>
        call.v = Literal(<<"w"," ">> \o SlashExpected(shape, GenderFollowed(shape)) \o <<" ","z">>)

\* the override decides against the dependency, and the fallback of Neutral
C6_Witness ==
  /\ \E shape \in SlashShapes :
        /\ Registered(shape, SlashVariant(shape))
        /\ shape.override.some /\ shape.dep.some
        /\ call.replaced[shape.override.v].gender = "Female"
        /\ call.replaced[shape.dep.v].gender = "Male"
        /\ call.v = Literal(<<"w"," ">> \o shape.female \o <<" ","z">>)

DotExpected(segments, gender) ==
  CASE Len(segments) = 2 ->
         (CASE gender = "Male" -> segments[1]
            [] gender = "Female" -> segments[1] \o segments[2]
            [] OTHER -> segments[1] \o <<"/">> \o segments[1] \o segments[2])
    [] Len(segments) = 3 ->
         (CASE gender = "Male" -> segments[1] \o segments[2]
            [] gender = "Female" -> segments[1] \o segments[3]
            [] OTHER -> segments[1] \o segments[2] \o <<"/">> \o segments[1] \o segments[3])
    [] OTHER ->
         (CASE gender = "Male" -> segments[1] \o segments[2] \o segments[4]
            [] gender = "Female" -> segments[1] \o segments[3] \o segments[4]
            [] OTHER -> segments[1] \o segments[2] \o segments[4] \o <<"/">>
                          \o segments[1] \o segments[3] \o segments[4])

\* C7: a dot form is replaced by the text of its arity and gender, the gender
\* being that of the override if there is one and of the rule's dependency
\* otherwise; the Neutral text is what the rule resolves to whatever the gender
\* of the rule's dependency
C7_DotAgreement ==
  \A shape \in DotShapes :
     Registered(shape, DotVariant(shape)) =>
        call.v = Literal(<<"w"," ">> \o DotExpected(shape.segments, GenderFollowed(shape)) \o <<" ","z">>)

----------------------------------------------------------------------------
(* Message mode: properties *)

RECURSIVE WithBindings(_, _)
WithBindings(self, v) ==
  IF v = <<>> THEN self
  ELSE WithBindings(add(self, v[1][1], <<v[1][2]>>), Tail(v))

\* the generator with the bindings and the template registered as rules
AsRules(s, v) == add(WithBindings(Gen, v), <<"_">>, <<s>>)

\* C8: msg returns what instantiate returns for a rule whose only variant is
\* the template, the bindings being registered as rules
C8_MsgLikeRule ==
  call.op = "msg" =>
     \E entropy \in Entropy :
        /\ instantiate_with(AsRules(call.symbol, call.bindings), <<"_">>, thread_rng(entropy)).st
             = call.st
        /\ instantiate_with(AsRules(call.symbol, call.bindings), <<"_">>, thread_rng(entropy)).v
             = call.v


----------------------------------------------------------------------------
(* Gender markers: properties *)

AnyCaseMarkerAt(s) ==
  Len(s) >= 3 /\ s[1] = "[" /\ s[2] \in {"m", "f", "n", "M", "F", "N"} /\ s[3] = "]"

\* the letters of the markers of s, in either case, in order
RECURSIVE AnyCaseMarkers(_)
AnyCaseMarkers(s) ==
  IF s = <<>> THEN <<>>
  ELSE IF AnyCaseMarkerAt(s) THEN <<s[2]>> \o AnyCaseMarkers(Drop(s, 3))
  ELSE AnyCaseMarkers(Tail(s))

\* s without its markers
RECURSIVE WithoutMarkers(_)
WithoutMarkers(s) ==
  IF s = <<>> THEN <<>>
  ELSE IF AnyCaseMarkerAt(s) THEN WithoutMarkers(Drop(s, 3))
  ELSE <<s[1]>> \o WithoutMarkers(Tail(s))

GenderOfLetter(m) ==
  CASE m \in {"m", "M"} -> "Male"
    [] m \in {"f", "F"} -> "Female"
    [] OTHER -> "Neutral"

\* the only variant of the rule of x, when instantiate was called on x
OnlyVariantOf(x) == replacements[x].content[1]

CalledOnRule(x) ==
  /\ call.op = "instantiate" /\ call.symbol = x
  /\ x \in DOMAIN replacements /\ Len(replacements[x].content) = 1

\* C11: a variant with exactly one marker [m], [f], [n], [M], [F] or [N] loses
\* it and gives the symbol the gender of its letter; a variant with two or
\* more of them fails with MultipleGenderMarkers
C11_MarkerAnyCase ==
  CalledOnRule(<<"x">>) =>
     /\ Len(AnyCaseMarkers(OnlyVariantOf(<<"x">>))) = 1 =>
           /\ call.st = "ok"
           /\ call.v = WithoutMarkers(OnlyVariantOf(<<"x">>))
           /\ call.replaced[<<"x">>].gender = GenderOfLetter(AnyCaseMarkers(OnlyVariantOf(<<"x">>))[1])
     /\ Len(AnyCaseMarkers(OnlyVariantOf(<<"x">>))) > 1 =>
           (call.st = "err" /\ call.v = "MultipleGenderMarkers")


----------------------------------------------------------------------------
(* Canonical names: properties *)

\* C12: every key of the symbol table and of the pre-set genders is
\* lower-case, and an override written [Plop] obtains the gender of plop
C12_CanonicalNames ==
  /\ \A k \in DOMAIN replacements \cup DOMAIN replaced : k = to_lowercase(k)
  /\ (CalledOnRule(<<"o">>) /\ <<"p","l","o","p">> \in DOMAIN replacements \cup DOMAIN replaced) =>
        /\ call.st = "ok"
        /\ call.v = (IF call.replaced[<<"p","l","o","p">>].gender = "Male" THEN <<"i","l">> ELSE <<"e","l","l","e">>)


----------------------------------------------------------------------------
(* Fresh environment: properties *)

\* the environment a call ended with holds the pre-set entries as they are in
\* the generator and, beside them, only symbols the called symbol reaches
OwnEnvironment ==
  \A k \in DOMAIN call.replaced :
     \/ k \in DOMAIN replaced /\ call.replaced[k] = replaced[k]
     \/ k \notin DOMAIN replaced /\ k \in AllClosure({to_lowercase(call.symbol)})

----------------------------------------------------------------------------
(* Recursion guard: properties *)

NoFreshReference ==
  \A x \in DOMAIN replacements : \A i \in DOMAIN replacements[x].content :
     FreshRefs(replacements[x].content[i]) = {}

\* the symbols of the table and those the called symbol reaches
DistinctSymbols == DOMAIN replacements \cup AllClosure({to_lowercase(call.symbol)})

\* C14: on a table without {{symbol}} every top-level expansion ends, with a
\* string or a failure, and the nesting of resolutions never exceeds the
\* number of distinct symbols
C14_Termination ==
  (call.op = "instantiate" /\ NoFreshReference) =>
     /\ call.st \in {"ok", "err", "panic"}
     /\ call.maxdepth <= Cardinality(DistinctSymbols)

\* a chain as deep as the table has symbols
C14_Witness ==
  /\ call.op = "instantiate" /\ NoFreshReference /\ call.st = "ok"
  /\ call.maxdepth = Cardinality(DOMAIN replacements)
  /\ call.maxdepth >= 5

\* the edges along which the guard can meet a symbol again: {symbol}
\* references, declared dependencies and [symbol] overrides
GuardEdges(x) ==
  IF x \notin DOMAIN replacements THEN {}
  ELSE CycleEdges(x)
         \cup UNION {{to_lowercase(y) : y \in BracketRefs(replacements[x].content[i])} :
                        i \in DOMAIN replacements[x].content}

RECURSIVE GuardClosure(_)
GuardClosure(S) ==
  IF UNION {GuardEdges(x) : x \in S} \subseteq S THEN S
  ELSE GuardClosure(S \cup UNION {GuardEdges(x) : x \in S})

\* C19 as stated: on a table whose graph of {symbol} references and gender
\* dependencies is acyclic no call fails with CyclicDependency, and the guard
\* is empty when a call returns a string
C19_NoFalseCycle ==
  (call.op = "instantiate" /\ \A x \in DOMAIN replacements : ~DependsOnItself(x)) =>
     /\ call.v # "CyclicDependency"
     /\ call.st = "ok" => call.stack = {}

\* C19, amended: the same on a table whose graph of {symbol} references,
\* gender dependencies and [symbol] overrides is acyclic
C19_NoFalseCycleWithOverrides ==
  (call.op = "instantiate"
     /\ \A x \in DOMAIN replacements : x \notin GuardClosure(GuardEdges(x))) =>
     /\ call.v # "CyclicDependency"
     /\ call.st = "ok" => call.stack = {}

\* a diamond: s is resolved once, referenced twice and used as a gender source
C19_Witness ==
  /\ call.op = "instantiate" /\ call.st = "ok" /\ call.stack = {}
  /\ \A x \in DOMAIN replacements : x \notin GuardClosure(GuardEdges(x))
  /\ \E i, j \in DOMAIN call.log :
        i < j /\ call.log[i].symbol = <<"s">> /\ call.log[j].symbol = <<"s">>
  /\ <<"s">> \in GuardEdges(<<"l">>) /\ <<"s">> \notin DOMAIN replaced


----------------------------------------------------------------------------
(* Reinstantiation: properties *)

\* C15 as stated: a {s} reference resolved inside a {{ }} reinstantiation, after the
\* enclosing call resolved s, gets the text the enclosing call chose for s
C15_CopyOfEnvironment ==
  \A i, j \in DOMAIN call.log :
     (/\ i < j
      /\ call.log[i].env = 0 /\ call.log[j].env > 0
      /\ call.log[i].symbol = call.log[j].symbol) =>
        call.log[j].content = call.log[i].content

\* the state of the random source before the n-th draw of a call made with seed
RECURSIVE DrawState(_, _)
DrawState(seed, n) == IF n = 1 THEN seed_from_u64(seed) ELSE RngNext(DrawState(seed, n - 1))

\* the variant of x picked by the n-th draw
PickedAt(x, seed, n) ==
  replacements[x].content[RngPick(DrawState(seed, n), Len(replacements[x].content)) + 1]

\* top -> {s}{m}, m -> {{x}}, x -> {s}, and s with two variants, nothing pre-set
FreshAfterMemo ==
  /\ call.op = "instantiate_from_seed" /\ call.symbol = <<"t","o","p">>
  /\ replaced = EmptyMap
  /\ DOMAIN replacements = {<<"t","o","p">>, <<"m">>, <<"x">>, <<"s">>}
  /\ replacements[<<"t","o","p">>].content = <<<<"{","s","}","{","m","}">>>>
  /\ replacements[<<"m">>].content = <<<<"{","{","x","}","}">>>>
  /\ replacements[<<"x">>].content = <<<<"{","s","}">>>>
  /\ Len(replacements[<<"s">>].content) = 2

\* C15, amended: a {{ }} reinstantiation starts from the pre-set entries of
\* the generator, not from the current environment: the {s} inside it is
\* picked anew, by the draw that comes when it is reached (the draws of the
\* call are top, s, m, x, s), whatever the enclosing call chose for s before
C15_FromPresets ==
  FreshAfterMemo =>
     /\ call.st = "ok"
     /\ call.v = PickedAt(<<"s">>, call.seed, 2) \o PickedAt(<<"s">>, call.seed, 5)

\* the two picks differ
C15_Witness ==
  /\ FreshAfterMemo /\ call.st = "ok"
  /\ PickedAt(<<"s">>, call.seed, 2) # PickedAt(<<"s">>, call.seed, 5)
  /\ \E i, j \in DOMAIN call.log :
        /\ i < j /\ call.log[i].env = 0 /\ call.log[j].env > 0
        /\ call.log[i].symbol = <<"s">> /\ call.log[j].symbol = <<"s">>
        /\ call.log[i].content # call.log[j].content

\* x lies on a cycle of references that nothing stops: every rule on it has
\* one variant, no symbol it reaches is unknown or pre-set, and no cycle of the
\* table is made of {symbol} references, dependencies and overrides alone
OnFreshCycle(x) ==
  /\ x \in AllClosure(AllEdges(x))
  /\ AllClosure({x}) \subseteq DOMAIN replacements
  /\ AllClosure({x}) \cap DOMAIN replaced = {}
  /\ \A y \in AllClosure({x}) : Len(replacements[y].content) = 1
  /\ \A y \in DOMAIN replacements : y \notin GuardClosure(GuardEdges(y))

----------------------------------------------------------------------------
(* Single assignment of the environment: properties *)

\* C16: an entry the environment holds is never replaced by another value
\* before the call returns; in particular the entries seeded from the pre-set
\* genders are, when the call returns, what they were when it started
C16_SingleAssignment ==
  call.op # "none" =>
     \A k \in DOMAIN replaced :
        k \in DOMAIN call.replaced /\ call.replaced[k] = replaced[k]


----------------------------------------------------------------------------
(* Stored gender: properties *)

HasMarker(s, letter) ==
  \E i \in DOMAIN s : i + 2 <= Len(s) /\ s[i] = "[" /\ s[i + 1] = letter /\ s[i + 2] = "]"

\* the gender the inline marker of a variant gives, Neutral without marker
MarkerGender(s) ==
  IF HasMarker(s, "m") THEN "Male" ELSE IF HasMarker(s, "f") THEN "Female" ELSE "Neutral"

\* the symbols this call resolved through a rule with a single variant
ResolvedByRule ==
  {k \in DOMAIN call.replaced :
     k \notin DOMAIN replaced /\ k \in DOMAIN replacements /\ Len(replacements[k].content) = 1}

UsesAsSource(y, x) ==
  /\ CalledOnRule(y) /\ call.st = "ok"
  /\ \/ replacements[y].gender_dependency = Some(x)
     \/ x \in BracketRefs(OnlyVariantOf(y))

\* C17: the entry of a resolved symbol has the gender of the marker of its
\* variant, Neutral without marker, whatever the gender it agreed with; a
\* symbol that uses it as its gender source agrees with that gender
C17_StoredGender ==
  /\ call.st = "ok" =>
        \A k \in ResolvedByRule : call.replaced[k].gender = MarkerGender(OnlyVariantOf(k))
  /\ \A y \in {<<"y">>, <<"z">>, <<"q">>} : \A x \in {<<"x">>, <<"w">>, <<"o">>} :
        UsesAsSource(y, x) =>
           call.v = (CASE MarkerGender(OnlyVariantOf(x)) = "Male" -> <<"u","n">>
                       [] MarkerGender(OnlyVariantOf(x)) = "Female" -> <<"u","n","e">>
                       [] OTHER -> <<"u","n","x">>)

\* x agreed with Male, is stored as Neutral, and y agrees with Neutral
C17_Witness ==
  /\ UsesAsSource(<<"y">>, <<"x">>)
  /\ call.replaced[<<"p","l","o","p">>].gender = "Male"
  /\ call.replaced[<<"x">>] = Replaced(<<"i","l">>, "Neutral")
  /\ call.v = <<"u","n","x">>


----------------------------------------------------------------------------
(* Pre-set genders: properties *)

Branch(gender, male, female) == IF gender = "Male" THEN male ELSE IF gender = "Female" THEN female
                                ELSE male \o <<"/">> \o female

\* C20: once set_gender(hs, g) was called, in every top-level call every
\* reference to hs contributes the empty text whatever the rule of hs, every
\* gender lookup on hs yields g, and hs without a rule is not unknown
C20_PresetShadows ==
  (call.op # "none" /\ <<"h","s">> \in DOMAIN replaced) =>
     /\ \A i \in DOMAIN call.log : call.log[i].symbol = <<"h","s">> => call.log[i].text = <<>>
     /\ call.v # "unreachable"
     /\ (call.op = "instantiate" /\ call.symbol = <<"h","s">>) => (call.st = "ok" /\ call.v = <<>>)
     /\ (CalledOnRule(<<"t">>) \/ CalledOnRule(<<"m">>)) =>
           (call.st = "ok" /\ call.v = Branch(replaced[<<"h","s">>].gender, <<"i","l">>, <<"e","l","l","e">>))
     /\ CalledOnRule(<<"u">>) =>
           (call.st = "ok" /\ call.v = Branch(replaced[<<"h","s">>].gender, <<"x">>, <<"y">>))
     /\ CalledOnRule(<<"c">>) => (call.st = "ok" /\ call.v = <<>>)
     /\ call.op = "msg" =>
           (call.st = "ok" /\ call.v = Branch(replaced[<<"h","s">>].gender, <<"i","l">>, <<"e","l","l","e">>))

=============================================================================
